---- MODULE Spec2Model ----
(***************************************************************************)
(* Model of the splintercat patch-integration engine:                      *)
(*   - Runner.run             (src/core/runner.py)   the driver loop       *)
(*   - BisectStrategy         (src/strategy/bisect.py) candidate selection *)
(*   - GitTarget.try_patches  (src/core/target.py)   apply/test/rollback   *)
(*   - State / Result         (src/core/state.py)    attempt history       *)
(*   - the merge workflow     (workflow graph and nodes, MergeCommand)     *)
(*   - SwitchStrategyRecovery (src/recovery/switch_strategy.py)            *)
(*   - CheckRunner/BuildRunner over CommandRunner (src/runner, src/core)   *)
(* Unit indices are 0-based as in the Python code; lists of patch ids are  *)
(* TLA+ sequences (1-based).                                               *)
(***************************************************************************)
EXTENDS Integers, Sequences, FiniteSets, TLC

\* ---- bounds ------------------------------------------------------------
MaxUnits == 5
\* number of Result records kept in `results'; next_attempt only reads
\* results[-1] and tests len(results) == 0, so older records are history.
MaxAttempts == 14

\* ---- values ------------------------------------------------------------
\* Python's None where a patch id, a bisect dict or a PatchSet is expected
NoId == 0
NoBisect == [start |-> -1, end |-> -1, mid |-> -1]
NoSet == [start |-> -1, end |-> -1]
\* batch_size = None of SwitchStrategyRecovery
NoBatchSize == 0
\* no Result yet
NotReturned == -99

\* Patch.id of the unit at index i: distinct values, disjoint from indices.
PatchId(i) == 100 + i

Min(a, b) == IF a < b THEN a ELSE b
Max(a, b) == IF a > b THEN a ELSE b

VARIABLES
    total,          \* original_patchset.size()
    applyFails,     \* indices of the units whose `git am' exits non-zero
    testFails,      \* indices of the units that make the test command fail
    pc,             \* position of Runner.run
    results,        \* state.results (the last MaxAttempts records)
    nattempts,      \* number of results recorded, saturating above MaxAttempts
    strategy_data,  \* state.strategy_data
    done,           \* state.done
    next_set,       \* next_set in Runner.run: [start, end) of the slice, or NoSet
    wc,             \* the target working copy
    saved,          \* `state' in try_patches: the HEAD saved for rollback
    entry,          \* working copy at the moment try_patches was entered
    pos,            \* loop position of _apply_patches inside next_set
    outcome,        \* what try_patches found: success, applied, failed patch
    tested,         \* whether _test ran during the current attempt
    validated,      \* ids contained in some attempt that applied and passed
    \* -- the merge workflow (workflow graph, nodes, MergeCommand) --
    routing,            \* which create_workflow routes the validation outcome
    wnode,              \* the node the graph run is at
    max_retries,        \* config.strategy.max_retries
    strategy_name,      \* config.strategy.name
    batch_size,         \* config.strategy.batch_size
    conflicts_left,     \* conflict pairs git-imerge still has to offer
    conflicts_remaining,\* runtime.merge.conflicts_remaining
    retry_count,        \* runtime.merge.retry_count
    recovery_attempts,  \* runtime.merge.recovery_attempts
    status,             \* runtime.merge.status
    end_data,           \* payload of the End node reached, if any
    caller,             \* what the caller of run_workflow got
    abort,              \* why the run stopped without finalizing, if it did
    failures,           \* failed validations since the last passing one
    total_failures,     \* failed validations since the start of the run
    \* -- calls made on a component by itself --
    rollbacks,          \* _rollback calls made in a row with the token `saved'
    after_first,        \* the working copy as the first of them left it
    \* -- the workflow state dict handed to a Recovery, and the planner's word --
    resolutions,        \* len(state["resolutions"]): the resolutions kept so far
    conflicts_in_batch, \* len(state["conflicts_in_batch"])
    recovery_decision,  \* state.recovery_decision.decision, "none" if unset
    new_strategy,       \* SwitchStrategyRecovery.new_strategy
    new_batch_size,     \* SwitchStrategyRecovery.batch_size
    switched,           \* whether SwitchStrategyRecovery.execute has run
    \* -- one run of a check or build command (CheckRunner, BuildRunner) --
    runner_kind,        \* which runner runs the command: "check" or "build"
    run_pc,             \* position inside CommandRunner.run and its caller
    timeout,            \* the timeout argument, in polling intervals
    duration,           \* how long the command runs if left alone
    cmd_exit,           \* the exit code the command ends with if left alone
    elapsed,            \* time.time() - start_time, in polling intervals
    process,            \* the subprocess: "none", "running", "exited", "killed"
    returncode,         \* Result.returncode, NotReturned before
    run_success,        \* CheckResult.success / BuildResult.success
    timed_out,          \* whether subprocess.TimeoutExpired was raised
    \* -- git-imerge --
    imerge_started,     \* whether start_merge has set up and saved a merge
    \* -- a strategy asked by itself --
    asked,              \* whether should_check_now has been called
    asked_count,        \* conflicts_resolved_this_batch of the last call
    answer              \* what the last call returned

engineVars == <<total, applyFails, testFails, pc, results, nattempts,
                strategy_data, done, next_set, wc, saved, entry, pos, outcome,
                tested, validated>>

wfVars == <<routing, wnode, max_retries, strategy_name, batch_size,
            conflicts_left, conflicts_remaining, retry_count,
            recovery_attempts, status, end_data, caller, abort, failures,
            total_failures>>

switchVars == <<resolutions, conflicts_in_batch, recovery_decision,
                new_strategy, new_batch_size, switched>>

runVars == <<runner_kind, run_pc, timeout, duration, cmd_exit, elapsed,
             process, returncode, run_success, timed_out>>

askVars == <<asked, asked_count, answer>>
auxVars == <<rollbacks, after_first, switchVars, runVars, imerge_started,
             askVars>>

vars == <<engineVars, wfVars, auxVars>>

\* ---- PatchSet ------------------------------------------------------------
\* original_patchset.slice(a, b) as the list of its patch ids
SliceIds(a, b) == [k \in 1..(b - a) |-> PatchId(a + k - 1)]

\* index of a patch id in the original patchset (the lookup loops of
\* next_attempt); -1 when the loop finds nothing
IndexOfFrom(id, lo, n) ==
    IF \E i \in lo..(n - 1) : PatchId(i) = id
    THEN CHOOSE i \in lo..(n - 1) : PatchId(i) = id
    ELSE -1

SeqToSet(s) == {s[k] : k \in 1..Len(s)}

\* ---- BisectStrategy.next_attempt ----------------------------------------
\* strategy_data as next_attempt loads it: missing keys take their defaults
EmptyStrategyData ==
    [known_bad_ids |-> {}, applied_up_to_index |-> 0, current_bisect |-> NoBisect]

\* variant: the lowest index among the ids of a result
MaxIndexLowest(ids, n) ==
    LET found == {IndexOfFrom(ids[k], 0, n) : k \in 1..Len(ids)} \ {-1}
    IN  IF found = {} THEN 0 ELSE CHOOSE m \in found : \A j \in found : m <= j

\* highest index of the original patchset among the ids of a result,
\* starting from max_index = 0
MaxIndex(ids, n) ==
    LET found == {IndexOfFrom(ids[k], 0, n) : k \in 1..Len(ids)} \ {-1}
    IN  IF found = {} THEN 0 ELSE CHOOSE m \in found : \A j \in found : j <= m

\* variant: takes the number of patches of the result for the new frontier
OnSuccessByCount(sd, last, n) ==
    [sd EXCEPT !.applied_up_to_index = Len(last.patch_ids),
               !.current_bisect = NoBisect]

\* last result succeeded: move the frontier, leave bisection
OnSuccess(sd, last, n) ==
    [sd EXCEPT !.applied_up_to_index = MaxIndex(last.patch_ids, n) + 1,
               !.current_bisect = NoBisect]

\* variant: marks the patch bad but goes on bisecting
OnApplyFailureKeepWindow(sd, last, n) ==
    [sd EXCEPT !.known_bad_ids = @ \cup {last.failed_patch_id}]

\* a patch failed to apply: mark it bad, leave bisection
OnApplyFailure(sd, last, n) ==
    [sd EXCEPT !.known_bad_ids = @ \cup {last.failed_patch_id},
               !.current_bisect = NoBisect]

\* variant: marks the patch bad but leaves the frontier where it was
OnSingleFailureNoAdvance(sd, last, n) ==
    [sd EXCEPT !.known_bad_ids = @ \cup {last.patch_ids[1]},
               !.current_bisect = NoBisect]

\* a single patch failed the tests: mark it bad, move the frontier past it
OnSingleFailure(sd, last, n) ==
    LET bad == last.patch_ids[1]
        i   == IndexOfFrom(bad, sd.applied_up_to_index, n)
    IN  [sd EXCEPT !.known_bad_ids = @ \cup {bad},
                   !.applied_up_to_index = IF i = -1 THEN @ ELSE i + 1,
                   !.current_bisect = NoBisect]

\* variant: also blames the first patch of the failed range
OnMultiFailureBlameFirst(sd, last, n) ==
    LET start_index == sd.applied_up_to_index
        end_index   == start_index + Len(last.patch_ids)
        mid_index   == (start_index + end_index) \div 2
    IN  [sd EXCEPT !.known_bad_ids = @ \cup {last.patch_ids[1]},
                   !.current_bisect =
            [start |-> start_index, end |-> end_index, mid |-> mid_index]]

\* several patches failed the tests: bisect, first half first
OnMultiFailure(sd, last, n) ==
    LET start_index == sd.applied_up_to_index
        end_index   == start_index + Len(last.patch_ids)
        mid_index   == (start_index + end_index) \div 2
    IN  [sd EXCEPT !.current_bisect =
            [start |-> start_index, end |-> end_index, mid |-> mid_index]]

\* "Analyze last result"
AnalyzeLast(sd, last, n) ==
    IF last.success THEN OnSuccess(sd, last, n)
    ELSE IF last.failed_patch_id # NoId THEN OnApplyFailure(sd, last, n)
    ELSE IF Len(last.patch_ids) = 1 THEN OnSingleFailure(sd, last, n)
    ELSE OnMultiFailure(sd, last, n)

\* the loop over range(remaining_start, total_patches): every known-bad
\* patch met moves remaining_start to the index after it
RemainingStart(upto, bad, n) ==
    LET hits == {i \in upto..(n - 1) : PatchId(i) \in bad}
    IN  IF hits = {} THEN upto
        ELSE (CHOOSE m \in hits : \A j \in hits : j <= m) + 1

\* first known-bad patch in the remaining range, else total_patches
RemainingEnd(rs, bad, n) ==
    LET hits == {i \in rs..(n - 1) : PatchId(i) \in bad}
    IN  IF hits = {} THEN n
        ELSE CHOOSE m \in hits : \A j \in hits : m <= j

\* variant: slices the first half from the start of the patchset
BisectCandidateFromZero(b) == [start |-> 0, end |-> b.mid]

\* the slice tried while bisecting
BisectCandidate(b) == [start |-> b.start, end |-> b.mid]

\* "Decide what to try next": the slice [start, end) to try, or NoSet (done)
Decide(sd, n) ==
    LET rs == RemainingStart(sd.applied_up_to_index, sd.known_bad_ids, n)
        re == RemainingEnd(rs, sd.known_bad_ids, n)
    IN  IF rs >= n THEN NoSet
        ELSE IF sd.current_bisect # NoBisect THEN BisectCandidate(sd.current_bisect)
        ELSE IF re - rs > 0 THEN [start |-> rs, end |-> re]
        ELSE NoSet

\* the ids of a candidate slice
CandidateIds(ns) == SliceIds(ns.start, ns.end)

\* ---- GitTarget ------------------------------------------------------------
\* the working copy: the commits on HEAD, whether a `git am' session is open,
\* and whether files of a partially applied patch lie in the tree
CleanAt(head) == [head |-> head, am |-> FALSE, partial |-> FALSE]

\* the apply_abort command
ApplyAbort(w) == [w EXCEPT !.am = FALSE]

\* variant: resets relative to the current HEAD (git reset --hard HEAD~1)
RollbackResetRelative(w, state) ==
    [w EXCEPT !.head = SubSeq(@, 1, Len(@) - 1)]

\* the rollback_reset command (git reset --hard <state>)
RollbackReset(w, state) == [w EXCEPT !.head = state]

\* the rollback_clean command (git clean -fd)
RollbackClean(w) == [w EXCEPT !.partial = FALSE]

\* variant: cleans up but never resets HEAD to the saved state
RollbackToNoReset(w, state) == RollbackClean(ApplyAbort(w))

\* _rollback: abort any git am session, reset to the saved state, clean
RollbackTo(w, state) == RollbackClean(RollbackReset(ApplyAbort(w), state))

\* _test: the test command exits 0 unless a unit that breaks it is on HEAD
TestPasses(w) ==
    \A k \in 1..Len(w.head) : IndexOfFrom(w.head[k], 0, total) \notin testFails

\* The id an apply failure is attributed to.  Result.failed_patch_id and
\* the failed_patch_id parameter of State.record_result carry it to
\* next_attempt, but try_patches returns only (success, applied) and the call
\* at runner.py line 72 passes neither `applied' nor the id; the value is
\* taken from the engine contract: apply_one returns the failed unit's id and
\* the engine records it with the failed_to_apply outcome.
FailedUnitId(i) == PatchId(i)

\* State.record_result: the Result built from an attempt
MakeResult(ns, out) ==
    [patch_ids |-> CandidateIds(ns), success |-> out.success,
     applied |-> out.applied, failed_patch_id |-> out.failed_patch_id]

\* results.append, keeping the last MaxAttempts records
AppendResult(rs, r) ==
    IF Len(rs) < MaxAttempts THEN Append(rs, r) ELSE Append(Tail(rs), r)

NoOutcome == [success |-> FALSE, applied |-> FALSE, failed_patch_id |-> NoId]

\* the merge workflow before MergeCommand.run_workflow is called
WorkflowIdle ==
    /\ routing = "node"
    /\ wnode = "Initialize"
    /\ max_retries = 0
    /\ strategy_name = "optimistic"
    /\ batch_size = 1
    /\ conflicts_left = 0
    /\ conflicts_remaining = TRUE
    /\ retry_count = 0
    /\ recovery_attempts = 0
    /\ status = "pending"
    /\ end_data = "none"
    /\ caller = "idle"
    /\ abort = "none"
    /\ failures = 0
    /\ total_failures = 0

\* no check or build command is being run
RunnerIdle ==
    /\ runner_kind = "check"
    /\ run_pc = "idle"
    /\ timeout = 1
    /\ duration = 0
    /\ cmd_exit = 0
    /\ elapsed = 0
    /\ process = "none"
    /\ returncode = NotReturned
    /\ run_success = FALSE
    /\ timed_out = FALSE

\* no strategy has been asked
AskIdle ==
    /\ asked = FALSE
    /\ asked_count = 0
    /\ answer = FALSE

\* no component is being called by itself
AuxIdle ==
    /\ rollbacks = 0
    /\ after_first = CleanAt(<<>>)
    /\ resolutions = 0
    /\ conflicts_in_batch = 0
    /\ recovery_decision = "none"
    /\ new_strategy = "per_conflict"
    /\ new_batch_size = NoBatchSize
    /\ switched = FALSE
    /\ RunnerIdle
    /\ imerge_started = FALSE
    /\ AskIdle

\* ---- Runner.run -----------------------------------------------------------
Init ==
    /\ WorkflowIdle
    /\ AuxIdle
    /\ total \in 0..MaxUnits
    /\ applyFails \in SUBSET (0..(total - 1))
    /\ testFails \in SUBSET (0..(total - 1))
    /\ pc = "start"
    /\ results = <<>>
    /\ nattempts = 0
    /\ strategy_data = EmptyStrategyData
    /\ done = FALSE
    /\ next_set = NoSet
    /\ wc = CleanAt(<<>>)
    /\ saved = <<>>
    /\ entry = CleanAt(<<>>)
    /\ pos = 0
    /\ outcome = NoOutcome
    /\ tested = FALSE
    /\ validated = {}

\* get the patches; return at once when there are none, else check out the
\* target branch and enter the main loop
Start ==
    /\ UNCHANGED <<wfVars, auxVars>>
    /\ pc = "start"
    /\ pc' = IF total = 0 THEN "exit" ELSE "loop"
    /\ UNCHANGED <<total, applyFails, testFails, results, nattempts,
                   strategy_data, done, next_set, wc, saved, entry, pos,
                   outcome, tested, validated>>

\* strategy.next_attempt(state) at the top of the while loop
NextAttempt ==
    /\ UNCHANGED <<wfVars, auxVars>>
    /\ pc = "loop"
    /\ IF done
       THEN /\ pc' = "report"
            /\ UNCHANGED <<strategy_data, done, next_set>>
       ELSE IF Len(results) = 0
       THEN /\ next_set' = [start |-> 0, end |-> total]
            /\ pc' = "try"
            /\ UNCHANGED <<strategy_data, done>>
       ELSE LET sd == AnalyzeLast(strategy_data, results[Len(results)], total)
                ns == Decide(sd, total)
            IN  /\ strategy_data' = sd
                /\ next_set' = ns
                /\ done' = (ns = NoSet)
                /\ pc' = IF ns = NoSet THEN "report" ELSE "try"
    /\ UNCHANGED <<total, applyFails, testFails, results, nattempts, wc,
                   saved, entry, pos, outcome, tested, validated>>

\* try_patches: save the current HEAD for rollback
SaveState ==
    /\ UNCHANGED <<wfVars, auxVars>>
    /\ pc = "try"
    /\ saved' = wc.head
    /\ entry' = wc
    /\ pos' = next_set.start
    /\ tested' = FALSE
    /\ outcome' = NoOutcome
    /\ pc' = "apply"
    /\ UNCHANGED <<total, applyFails, testFails, results, nattempts,
                   strategy_data, done, next_set, wc, validated>>

\* variant: a failed `git am' is aborted but the loop goes on to the next
\* patch and the attempt is tested like any other
ApplyPatchKeepGoing ==
    /\ UNCHANGED <<wfVars, auxVars>>
    /\ pc = "apply"
    /\ pos < next_set.end
    /\ IF pos \in applyFails
       THEN \E leftover \in BOOLEAN :
                 wc' = ApplyAbort([wc EXCEPT !.am = TRUE, !.partial = leftover])
       ELSE wc' = [wc EXCEPT !.head = Append(@, PatchId(pos))]
    /\ pos' = pos + 1
    /\ pc' = IF pos + 1 < next_set.end THEN "apply" ELSE "test"
    /\ UNCHANGED outcome
    /\ UNCHANGED <<total, applyFails, testFails, results, nattempts,
                   strategy_data, done, next_set, saved, entry, tested,
                   validated>>

\* _apply_patches: one `git am' of the loop; a failure aborts the am session
\* and ends the loop
ApplyPatch ==
    /\ UNCHANGED <<wfVars, auxVars>>
    /\ pc = "apply"
    /\ pos < next_set.end
    /\ IF pos \in applyFails
       THEN /\ \E leftover \in BOOLEAN :
                 wc' = ApplyAbort([wc EXCEPT !.am = TRUE, !.partial = leftover])
            /\ outcome' = [success |-> FALSE, applied |-> FALSE,
                           failed_patch_id |-> FailedUnitId(pos)]
            /\ pc' = "rollback"
            /\ pos' = pos
       ELSE /\ wc' = [wc EXCEPT !.head = Append(@, PatchId(pos))]
            /\ pos' = pos + 1
            /\ pc' = IF pos + 1 < next_set.end THEN "apply" ELSE "test"
            /\ UNCHANGED outcome
    /\ UNCHANGED <<total, applyFails, testFails, results, nattempts,
                   strategy_data, done, next_set, saved, entry, tested,
                   validated>>

\* _test after every patch applied
Test ==
    /\ UNCHANGED <<wfVars, auxVars>>
    /\ pc = "test"
    /\ tested' = TRUE
    /\ IF TestPasses(wc)
       THEN /\ outcome' = [success |-> TRUE, applied |-> TRUE,
                           failed_patch_id |-> NoId]
            /\ pc' = "record"
       ELSE /\ outcome' = [success |-> FALSE, applied |-> TRUE,
                           failed_patch_id |-> NoId]
            /\ pc' = "rollback"
    /\ UNCHANGED <<total, applyFails, testFails, results, nattempts,
                   strategy_data, done, next_set, wc, saved, entry, pos,
                   validated>>

\* variant: after the rollback the loop goes straight to the next candidate
RollbackUnrecorded ==
    /\ UNCHANGED <<wfVars, auxVars>>
    /\ pc = "rollback"
    /\ wc' = RollbackTo(wc, saved)
    /\ pc' = "loop"
    /\ UNCHANGED <<total, applyFails, testFails, results, nattempts,
                   strategy_data, done, next_set, saved, entry, pos, outcome,
                   tested, validated>>

\* _rollback(state) on either failure
Rollback ==
    /\ UNCHANGED <<wfVars, auxVars>>
    /\ pc = "rollback"
    /\ wc' = RollbackTo(wc, saved)
    /\ pc' = "record"
    /\ UNCHANGED <<total, applyFails, testFails, results, nattempts,
                   strategy_data, done, next_set, saved, entry, pos, outcome,
                   tested, validated>>

\* variant: the driver itself moves the frontier when it records a pass
RecordResultAdvancing ==
    /\ UNCHANGED <<wfVars, auxVars>>
    /\ pc = "record"
    /\ results' = AppendResult(results, MakeResult(next_set, outcome))
    /\ nattempts' = Min(nattempts + 1, MaxAttempts + 1)
    /\ validated' = IF outcome.success
                    THEN validated \cup SeqToSet(CandidateIds(next_set))
                    ELSE validated
    /\ strategy_data' = IF outcome.success
                        THEN [strategy_data EXCEPT
                                 !.applied_up_to_index = next_set.end]
                        ELSE strategy_data
    /\ pc' = "loop"
    /\ UNCHANGED <<total, applyFails, testFails, done,
                   next_set, wc, saved, entry, pos, outcome, tested>>

\* state.record_result(next_set, ...) and back to the top of the loop
RecordResult ==
    /\ UNCHANGED <<wfVars, auxVars>>
    /\ pc = "record"
    /\ results' = AppendResult(results, MakeResult(next_set, outcome))
    /\ nattempts' = Min(nattempts + 1, MaxAttempts + 1)
    /\ validated' = IF outcome.success
                    THEN validated \cup SeqToSet(CandidateIds(next_set))
                    ELSE validated
    /\ pc' = "loop"
    /\ UNCHANGED <<total, applyFails, testFails, strategy_data, done,
                   next_set, wc, saved, entry, pos, outcome, tested>>

\* _report_results after the loop
Report ==
    /\ UNCHANGED <<wfVars, auxVars>>
    /\ pc = "report"
    /\ pc' = "exit"
    /\ UNCHANGED <<total, applyFails, testFails, results, nattempts,
                   strategy_data, done, next_set, wc, saved, entry, pos,
                   outcome, tested, validated>>

Next ==
    \/ Start
    \/ NextAttempt
    \/ SaveState
    \/ ApplyPatch
    \/ Test
    \/ Rollback
    \/ RecordResult
    \/ Report

Spec == Init /\ [][Next]_vars

\* the loop of Runner.run is sequential code: it keeps running while a step
\* is enabled
FairSpec == Spec /\ WF_vars(Next)

TypeOK ==
    /\ total \in 0..MaxUnits
    /\ pc \in {"start", "loop", "try", "apply", "test", "rollback", "record",
               "report", "exit"}
    /\ Len(results) <= MaxAttempts
    /\ done \in BOOLEAN

\* ---- single validation fault (Scenario C) ------------------------------
MaxUnitsC == 8

\* every unit applies; exactly one unit makes the test command fail
InitSingleFault ==
    /\ WorkflowIdle
    /\ AuxIdle
    /\ total \in 1..MaxUnitsC
    /\ applyFails = {}
    /\ \E k \in 0..(total - 1) : testFails = {k}
    /\ pc = "start"
    /\ results = <<>>
    /\ nattempts = 0
    /\ strategy_data = EmptyStrategyData
    /\ done = FALSE
    /\ next_set = NoSet
    /\ wc = CleanAt(<<>>)
    /\ saved = <<>>
    /\ entry = CleanAt(<<>>)
    /\ pos = 0
    /\ outcome = NoOutcome
    /\ tested = FALSE
    /\ validated = {}

SpecSingleFault == InitSingleFault /\ [][Next]_vars

\* ---- properties --------------------------------------------------------
frontier == strategy_data.applied_up_to_index
known_bad_ids == strategy_data.known_bad_ids
AllIds == {PatchId(i) : i \in 0..(total - 1)}

C5_AttemptAtomic ==
    pc = "record" =>
        IF outcome.success
        THEN wc.head = entry.head \o CandidateIds(next_set)
        ELSE wc = entry

C5_Witness ==
    /\ pc = "record"
    /\ ~outcome.success
    /\ ~outcome.applied
    /\ pos > next_set.start
    /\ wc = entry

\* the one unit of a singleton set of indices
TheOne(S) == CHOOSE k \in S : TRUE

RECURSIVE CeilLog2(_)
CeilLog2(n) == IF n <= 1 THEN 0 ELSE 1 + CeilLog2((n + 1) \div 2)

\* the faulty unit has just been isolated: the last attempt was that unit
\* alone and next_attempt has marked it bad
JustIsolated(k) ==
    /\ PatchId(k) \in known_bad_ids
    /\ Len(results) >= 1
    /\ results[Len(results)].patch_ids = <<PatchId(k)>>

\* C7: when N units fail the tests together because of one faulty unit, the
\* attempts made after that first failure up to the isolation of the faulty
\* unit number at most ceil(log2(N)).
C7_BisectionBound ==
    (Cardinality(testFails) = 1 /\ applyFails = {}
        /\ JustIsolated(TheOne(testFails)))
    => Len(results) - 1 <= CeilLog2(total)

\* the end state of a run with the single faulty unit k
SingleFaultEnd(k) ==
    /\ pc = "exit"
    /\ done
    /\ frontier = total
    /\ known_bad_ids = {PatchId(k)}
    /\ AllIds \ {PatchId(k)} \subseteq validated

\* C8: with one unit that fails the tests whenever included, the run ends
\* done with the frontier at N, exactly that unit known bad and every other
\* unit in some attempt that applied and passed.
C8_ScenarioC == <>SingleFaultEnd(TheOne(testFails))

C8_Witness ==
    /\ total >= 4
    /\ Cardinality(testFails) = 1
    /\ SingleFaultEnd(TheOne(testFails))
    /\ TheOne(testFails) \in 1..(total - 2)

FairSingleFault == SpecSingleFault /\ WF_vars(Next)

\* ---- merge workflow ------------------------------------------------------
\* The nodes route by the node their run method returns.  The repository has
\* two definitions of the graph: splintercat/workflow/graph.py, where the
\* validation step is the Check node, and workflow/graph.py, where it is the
\* build and test nodes followed by the conditional edges _after_build and
\* _after_test, the only routes into SummarizeFailure and PlanRecovery.
\* `routing' says which of the two validates: "node" or "edge".
MaxRetries == 2
MaxConflicts == 3
MaxBatch == 2

StrategyNames == {"optimistic", "batch", "per_conflict", "unknown"}

\* variant: a batch of b conflicts is not enough, one more is needed
ShouldCheckNowStrict(name, b, c) ==
    IF name = "optimistic" THEN FALSE
    ELSE IF name = "batch" THEN c > b
    ELSE c >= 1

\* Strategy.should_check_now / should_build_now of the three strategies
ShouldCheckNow(name, b, c) ==
    IF name = "optimistic" THEN FALSE
    ELSE IF name = "batch" THEN c >= b
    ELSE c >= 1

\* variant: the loop never asks the strategy
ResolvedInBatchAll(name, b, left) == left

\* conflicts the loop of ResolveConflicts.run resolves before it breaks:
\* it stops when git-imerge has no conflict left or the strategy says check
ResolvedInBatch(name, b, left) ==
    LET stops == {c \in 1..left : ShouldCheckNow(name, b, c)}
    IN  IF stops = {} THEN left
        ELSE CHOOSE c \in stops : \A d \in stops : c <= d

\* variant: gives up one failure early
RetriesExceededEarly(count, max) == count >= max

\* Check.run: "if retry_count > max_retries"
RetriesExceeded(count, max) == count > max

\* PlanRecovery.run: "if current_attempts >= max_retries"
RecoveryExhausted(attempts, max) == attempts >= max

\* _after_build: the node after build
AfterBuild(build_result) ==
    IF build_result = "none" \/ build_result = "failed"
    THEN "SummarizeFailure"
    ELSE "Tests"

\* variant: finalizes as soon as the tests pass
AfterTestAlwaysFinalize(test_result, remaining) ==
    IF test_result = "none" \/ test_result = "failed"
    THEN "SummarizeFailure"
    ELSE "Finalize"

\* _after_test: the node after test
AfterTest(test_result, remaining) ==
    IF test_result = "none" \/ test_result = "failed"
    THEN "SummarizeFailure"
    ELSE IF remaining THEN "ResolveConflicts"
    ELSE "Finalize"

WorkflowInit ==
    /\ total = 0 /\ applyFails = {} /\ testFails = {} /\ pc = "start"
    /\ results = <<>> /\ nattempts = 0 /\ strategy_data = EmptyStrategyData
    /\ done = FALSE /\ next_set = NoSet /\ wc = CleanAt(<<>>) /\ saved = <<>>
    /\ entry = CleanAt(<<>>) /\ pos = 0 /\ outcome = NoOutcome
    /\ tested = FALSE /\ validated = {}
    /\ AuxIdle
    /\ routing \in {"node", "edge"}
    /\ wnode = "Initialize"
    /\ max_retries \in 0..MaxRetries
    /\ strategy_name \in StrategyNames
    /\ batch_size \in 1..MaxBatch
    /\ conflicts_left \in 0..MaxConflicts
    /\ conflicts_remaining = TRUE
    /\ retry_count = 0
    /\ recovery_attempts = 0
    /\ status = "pending"
    /\ end_data = "none"
    /\ caller = "running"
    /\ abort = "none"
    /\ failures = 0
    /\ total_failures = 0

\* Initialize.run: start git-imerge (start_merge sets up the merge state and
\* saves it in the repository), then create the strategy, then set the
\* runtime state
InitializeRun ==
    /\ wnode = "Initialize"
    /\ caller = "running"
    /\ \E start_ok \in BOOLEAN :
        IF ~start_ok \/ strategy_name \notin {"optimistic", "batch", "per_conflict"}
        THEN /\ wnode' = "Raised"
             /\ caller' = "exception"
             /\ abort' = IF start_ok THEN "unknown_strategy" ELSE "start_merge"
             /\ imerge_started' = start_ok
             /\ UNCHANGED <<status, conflicts_remaining>>
        ELSE /\ wnode' = "ResolveConflicts"
             /\ status' = "initialized"
             /\ conflicts_remaining' = TRUE
             /\ imerge_started' = TRUE
             /\ UNCHANGED <<caller, abort>>
    /\ UNCHANGED <<routing, max_retries, strategy_name, batch_size,
                   conflicts_left, retry_count, recovery_attempts, end_data,
                   failures, total_failures>>
    /\ UNCHANGED <<engineVars, rollbacks, after_first, switchVars, runVars,
                   askVars>>

\* ResolveConflicts.run: resolve conflicts until the strategy says check or
\* none is left, then hand over to the validation step
ResolveConflictsRun ==
    /\ wnode = "ResolveConflicts"
    /\ LET n == ResolvedInBatch(strategy_name, batch_size, conflicts_left)
       IN  /\ conflicts_left' = conflicts_left - n
           /\ conflicts_remaining' = (conflicts_left - n > 0)
    /\ wnode' = IF routing = "node" THEN "Check" ELSE "Build"
    /\ UNCHANGED <<routing, max_retries, strategy_name, batch_size,
                   retry_count, recovery_attempts, status, end_data, caller,
                   abort, failures, total_failures>>
    /\ UNCHANGED <<engineVars, auxVars>>

\* Check.run: run the checks; count a failure and retry or give up, or reset
\* the counter and move on
CheckRun ==
    /\ wnode = "Check"
    /\ \E result \in {"pass", "fail"} :
        IF result = "fail"
        THEN /\ retry_count' = retry_count + 1
             /\ failures' = failures + 1
             /\ total_failures' = total_failures + 1
             /\ IF RetriesExceeded(retry_count + 1, max_retries)
                THEN /\ wnode' = "Raised"
                     /\ caller' = "exception"
                     /\ abort' = "max_retries"
                ELSE IF ~conflicts_remaining
                THEN /\ wnode' = "Raised"
                     /\ caller' = "exception"
                     /\ abort' = "completed_merge"
                ELSE /\ wnode' = "ResolveConflicts"
                     /\ UNCHANGED <<caller, abort>>
        ELSE /\ retry_count' = 0
             /\ failures' = 0
             /\ wnode' = IF conflicts_remaining THEN "ResolveConflicts"
                         ELSE "Finalize"
             /\ UNCHANGED <<caller, abort, total_failures>>
    /\ UNCHANGED <<routing, max_retries, strategy_name, batch_size,
                   conflicts_left, conflicts_remaining, recovery_attempts,
                   status, end_data>>
    /\ UNCHANGED <<engineVars, auxVars>>

\* the build node and the conditional edge after it
BuildRun ==
    /\ wnode = "Build"
    /\ \E build_result \in {"none", "failed", "ok"} :
        /\ wnode' = AfterBuild(build_result)
        /\ failures' = IF build_result = "ok" THEN failures ELSE failures + 1
        /\ total_failures' = IF build_result = "ok" THEN total_failures
                             ELSE total_failures + 1
    /\ UNCHANGED <<routing, max_retries, strategy_name, batch_size,
                   conflicts_left, conflicts_remaining, retry_count,
                   recovery_attempts, status, end_data, caller, abort>>
    /\ UNCHANGED <<engineVars, auxVars>>

\* the test node and the conditional edge after it
TestsRun ==
    /\ wnode = "Tests"
    /\ \E test_result \in {"none", "failed", "ok"} :
        /\ wnode' = AfterTest(test_result, conflicts_remaining)
        /\ failures' = IF test_result = "ok" THEN 0 ELSE failures + 1
        /\ total_failures' = IF test_result = "ok" THEN total_failures
                             ELSE total_failures + 1
    /\ UNCHANGED <<routing, max_retries, strategy_name, batch_size,
                   conflicts_left, conflicts_remaining, retry_count,
                   recovery_attempts, status, end_data, caller, abort>>
    /\ UNCHANGED <<engineVars, auxVars>>

\* SummarizeFailure.run
SummarizeFailureRun ==
    /\ wnode = "SummarizeFailure"
    /\ wnode' = "PlanRecovery"
    /\ UNCHANGED <<routing, max_retries, strategy_name, batch_size,
                   conflicts_left, conflicts_remaining, retry_count,
                   recovery_attempts, status, end_data, caller, abort,
                   failures, total_failures>>
    /\ UNCHANGED <<engineVars, auxVars>>

\* PlanRecovery.run: abort with End(message) once the retries are used up
PlanRecoveryRun ==
    /\ wnode = "PlanRecovery"
    /\ IF RecoveryExhausted(recovery_attempts, max_retries)
       THEN /\ status' = "failed"
            /\ end_data' = "merge failed"
            /\ abort' = "recovery_retries"
            /\ wnode' = "End"
       ELSE /\ wnode' = "ExecuteRecovery"
            /\ UNCHANGED <<status, end_data, abort>>
    /\ UNCHANGED <<routing, max_retries, strategy_name, batch_size,
                   conflicts_left, conflicts_remaining, retry_count,
                   recovery_attempts, caller, failures, total_failures>>
    /\ UNCHANGED <<engineVars, auxVars>>

\* ExecuteRecovery.run
ExecuteRecoveryRun ==
    /\ wnode = "ExecuteRecovery"
    /\ recovery_attempts' = recovery_attempts + 1
    /\ wnode' = "ResolveConflicts"
    /\ UNCHANGED <<routing, max_retries, strategy_name, batch_size,
                   conflicts_left, conflicts_remaining, retry_count, status,
                   end_data, caller, abort, failures, total_failures>>
    /\ UNCHANGED <<engineVars, auxVars>>

\* Finalize.run
FinalizeRun ==
    /\ wnode = "Finalize"
    /\ status' = "complete"
    /\ end_data' = "final commit"
    /\ wnode' = "End"
    /\ UNCHANGED <<routing, max_retries, strategy_name, batch_size,
                   conflicts_left, conflicts_remaining, retry_count,
                   recovery_attempts, caller, abort, failures, total_failures>>
    /\ UNCHANGED <<engineVars, auxVars>>

\* MergeCommand.run_workflow: the node stream yields a node with `data'
RunWorkflowReturn ==
    /\ wnode = "End"
    /\ caller = "running"
    /\ caller' = "exit0"
    /\ UNCHANGED <<routing, wnode, max_retries, strategy_name, batch_size,
                   conflicts_left, conflicts_remaining, retry_count,
                   recovery_attempts, status, end_data, abort, failures,
                   total_failures>>
    /\ UNCHANGED <<engineVars, auxVars>>

WorkflowNext ==
    \/ InitializeRun
    \/ ResolveConflictsRun
    \/ CheckRun
    \/ BuildRun
    \/ TestsRun
    \/ SummarizeFailureRun
    \/ PlanRecoveryRun
    \/ ExecuteRecoveryRun
    \/ FinalizeRun
    \/ RunWorkflowReturn

WorkflowSpec == WorkflowInit /\ [][WorkflowNext]_vars

\* C10: a run that recovery aborted is never reported to the caller as a
\* success (exit status 0).
C10_AbortNotSuccess == abort # "none" => caller # "exit0"

\* the run stopped because a validation failed
StoppedOnFailure == abort \in {"max_retries", "completed_merge", "recovery_retries"}

MaxBase == 5
MaxAhead == 4
\* calls of _rollback made in a row
MaxRollbacks == 3

\* somewhere inside try_patches: a state was saved, then patches were applied;
\* a `git am' session may be open and untracked files may lie in the tree
RollbackInit ==
    /\ WorkflowIdle
    /\ AuxIdle
    /\ \E s \in 0..MaxBase, k \in 0..MaxAhead :
        /\ total = s + k
        /\ saved = SliceIds(0, s)
        /\ next_set = [start |-> s, end |-> s + k]
        /\ pos = s + k
        /\ entry = CleanAt(SliceIds(0, s))
        /\ \E a \in BOOLEAN, p \in BOOLEAN :
              wc = [head |-> SliceIds(0, s + k), am |-> a, partial |-> p]
    /\ applyFails = {} /\ testFails = {}
    /\ pc = "rollback"
    /\ results = <<>> /\ nattempts = 0 /\ strategy_data = EmptyStrategyData
    /\ done = FALSE /\ outcome = NoOutcome /\ tested = FALSE
    /\ validated = {}

\* one more call of _rollback(state) with the same saved state
RollbackAgain ==
    /\ pc = "rollback"
    /\ rollbacks < MaxRollbacks
    /\ wc' = RollbackTo(wc, saved)
    /\ rollbacks' = rollbacks + 1
    /\ after_first' = IF rollbacks = 0 THEN RollbackTo(wc, saved)
                      ELSE after_first
    /\ UNCHANGED <<total, applyFails, testFails, pc, results, nattempts,
                   strategy_data, done, next_set, saved, entry, pos, outcome,
                   tested, validated>>
    /\ UNCHANGED <<wfVars, switchVars, runVars, imerge_started, askVars>>

RollbackNext == RollbackAgain

RollbackSpec == RollbackInit /\ [][RollbackNext]_vars

\* C14: after two or more calls of _rollback in a row with the same saved
\* state the working copy is what the first call left.
C14_RollbackIdempotent == rollbacks >= 2 => wc = after_first

C14_Witness ==
    /\ rollbacks = 2
    /\ Len(saved) >= 1
    /\ pos >= next_set.start + 2
    /\ wc = CleanAt(saved)

\* ---- switch-strategy recovery ----------------------------------------------
\* SwitchStrategyRecovery is constructed and executed by no code of the
\* repository (the ExecuteRecovery node and the plan_strategy node are
\* stubs), so execute is a call that may come at any point once the planner's
\* decision is switch_strategy; the graph routes the decision by
\* _after_recovery_plan.
MaxResolutions == 3

\* "optimistic -> batch -> per_conflict": how conservative a strategy is
Conservative(name) ==
    IF name = "optimistic" THEN 0 ELSE IF name = "batch" THEN 1 ELSE 2

\* _after_recovery_plan: the node after plan_recovery
AfterRecoveryPlan(decision) ==
    IF decision = "none" THEN "END"
    ELSE IF decision = "abort" THEN "END"
    ELSE IF decision = "switch_strategy" THEN "plan_strategy"
    ELSE "execute_recovery"

\* the graph at plan_recovery after some failed validation; the recovery, if
\* one is built, names a strategy more conservative than the current one
SwitchInit ==
    /\ total = 0 /\ applyFails = {} /\ testFails = {} /\ pc = "start"
    /\ results = <<>> /\ nattempts = 0 /\ strategy_data = EmptyStrategyData
    /\ done = FALSE /\ next_set = NoSet /\ wc = CleanAt(<<>>) /\ saved = <<>>
    /\ entry = CleanAt(<<>>) /\ pos = 0 /\ outcome = NoOutcome
    /\ tested = FALSE /\ validated = {}
    /\ rollbacks = 0 /\ after_first = CleanAt(<<>>)
    /\ RunnerIdle
    /\ imerge_started = FALSE
    /\ AskIdle
    /\ routing = "edge"
    /\ wnode = "plan_recovery"
    /\ max_retries = 0
    /\ strategy_name \in {"optimistic", "batch"}
    /\ new_strategy \in {"batch", "per_conflict"}
    /\ Conservative(new_strategy) > Conservative(strategy_name)
    /\ batch_size \in 1..MaxBatch
    /\ new_batch_size \in {NoBatchSize} \cup (1..MaxBatch)
    /\ resolutions \in 0..MaxResolutions
    /\ conflicts_in_batch \in 0..MaxBatch
    /\ conflicts_left = 0
    /\ conflicts_remaining \in BOOLEAN
    /\ recovery_decision \in {"none", "abort", "switch_strategy", "retry_all"}
    /\ switched = FALSE
    /\ retry_count = 0 /\ recovery_attempts = 0
    /\ status = "pending" /\ end_data = "none" /\ caller = "running"
    /\ abort = "none" /\ failures = 1 /\ total_failures = 1

\* the conditional edge after plan_recovery
RecoveryPlanEdge ==
    /\ wnode = "plan_recovery"
    /\ wnode' = AfterRecoveryPlan(recovery_decision)
    /\ UNCHANGED <<routing, max_retries, strategy_name, batch_size,
                   conflicts_left, conflicts_remaining, retry_count,
                   recovery_attempts, status, end_data, caller, abort,
                   failures, total_failures>>
    /\ UNCHANGED <<engineVars, auxVars>>

\* PlanStrategy.run: goes on to ResolveConflicts
PlanStrategyRun ==
    /\ wnode = "plan_strategy"
    /\ wnode' = "resolve_conflicts"
    /\ UNCHANGED <<routing, max_retries, strategy_name, batch_size,
                   conflicts_left, conflicts_remaining, retry_count,
                   recovery_attempts, status, end_data, caller, abort,
                   failures, total_failures>>
    /\ UNCHANGED <<engineVars, auxVars>>

\* SwitchStrategyRecovery.execute(state)
SwitchStrategyExecute ==
    /\ recovery_decision = "switch_strategy"
    /\ ~switched
    /\ switched' = TRUE
    /\ resolutions' = 0
    /\ conflicts_remaining' = TRUE
    /\ strategy_name' = new_strategy
    /\ batch_size' = IF new_batch_size # NoBatchSize THEN new_batch_size
                     ELSE batch_size
    /\ UNCHANGED <<conflicts_in_batch, recovery_decision, new_strategy,
                   new_batch_size, rollbacks, after_first, runVars,
                   imerge_started, askVars>>
    /\ UNCHANGED <<routing, wnode, max_retries, conflicts_left, retry_count,
                   recovery_attempts, status, end_data, caller, abort,
                   failures, total_failures>>
    /\ UNCHANGED engineVars

SwitchNext ==
    \/ RecoveryPlanEdge
    \/ PlanStrategyRun
    \/ SwitchStrategyExecute

SwitchSpec == SwitchInit /\ [][SwitchNext]_vars

\* C18: the switch-strategy recovery turns the batch strategy into the
\* per-conflict one and, whatever it resets of the batch in progress, leaves
\* the progress already confirmed (the resolutions kept so far) as it was.
C18_StrategySwitch ==
    [][(switched' /\ ~switched) =>
        /\ (strategy_name = "batch" => strategy_name' = "per_conflict")
        /\ resolutions' = resolutions]_vars

\* ---- CheckRunner.run / BuildRunner.run_build_test --------------------------
\* Time is counted in polling intervals of _run_with_realtime_output (the 0.1 s
\* of its select call).  The runners pass no stdin, so CommandRunner.run takes
\* the real-time branch.
MaxTimeout == 3
MaxDuration == 6

\* CheckResult.success / BuildResult.success
ResultSuccess(code) == code = 0

\* "if timeout and (time.time() - start_time) > timeout"
TimeoutReached(t, e) == t # 0 /\ e > t

\* a runner is about to run a command that has a timeout
RunnerInit ==
    /\ total = 0 /\ applyFails = {} /\ testFails = {} /\ pc = "start"
    /\ results = <<>> /\ nattempts = 0 /\ strategy_data = EmptyStrategyData
    /\ done = FALSE /\ next_set = NoSet /\ wc = CleanAt(<<>>) /\ saved = <<>>
    /\ entry = CleanAt(<<>>) /\ pos = 0 /\ outcome = NoOutcome
    /\ tested = FALSE /\ validated = {}
    /\ WorkflowIdle
    /\ rollbacks = 0 /\ after_first = CleanAt(<<>>)
    /\ resolutions = 0 /\ conflicts_in_batch = 0
    /\ recovery_decision = "none" /\ new_strategy = "per_conflict"
    /\ new_batch_size = NoBatchSize /\ switched = FALSE
    /\ imerge_started = FALSE
    /\ AskIdle
    /\ runner_kind \in {"check", "build"}
    /\ run_pc = "popen"
    /\ timeout \in 1..MaxTimeout
    /\ duration \in 0..MaxDuration
    /\ cmd_exit \in {0, 1}
    /\ elapsed = 0
    /\ process = "none"
    /\ returncode = NotReturned
    /\ run_success = FALSE
    /\ timed_out = FALSE

\* subprocess.Popen and the start of the real-time loop
Popen ==
    /\ run_pc = "popen"
    /\ process' = "running"
    /\ elapsed' = 0
    /\ run_pc' = "check_timeout"
    /\ UNCHANGED <<runner_kind, timeout, duration, cmd_exit, returncode,
                   run_success, timed_out>>
    /\ UNCHANGED <<engineVars, wfVars, rollbacks, after_first, switchVars,
                   imerge_started, askVars>>

\* top of the loop: raise TimeoutExpired once the timeout is exceeded
CheckTimeout ==
    /\ run_pc = "check_timeout"
    /\ IF TimeoutReached(timeout, elapsed)
       THEN /\ timed_out' = TRUE
            /\ run_pc' = "except"
       ELSE /\ run_pc' = "select"
            /\ UNCHANGED timed_out
    /\ UNCHANGED <<runner_kind, timeout, duration, cmd_exit, elapsed, process,
                   returncode, run_success>>
    /\ UNCHANGED <<engineVars, wfVars, rollbacks, after_first, switchVars,
                   imerge_started, askVars>>

\* select with a timeout of one interval: returns at once when output is
\* ready, else after the interval; the command ends when its time is up
SelectOutput ==
    /\ run_pc = "select"
    /\ \E waited \in {0, 1} :
        /\ elapsed' = elapsed + waited
        /\ process' = IF duration <= elapsed + waited THEN "exited"
                      ELSE process
    /\ run_pc' = "poll"
    /\ UNCHANGED <<runner_kind, timeout, duration, cmd_exit, returncode,
                   run_success, timed_out>>
    /\ UNCHANGED <<engineVars, wfVars, rollbacks, after_first, switchVars,
                   imerge_started, askVars>>

\* "if process.poll() is not None": leave the loop with the exit code
Poll ==
    /\ run_pc = "poll"
    /\ IF process = "exited"
       THEN /\ returncode' = cmd_exit
            /\ run_pc' = "result"
       ELSE /\ run_pc' = "check_timeout"
            /\ UNCHANGED returncode
    /\ UNCHANGED <<runner_kind, timeout, duration, cmd_exit, elapsed, process,
                   run_success, timed_out>>
    /\ UNCHANGED <<engineVars, wfVars, rollbacks, after_first, switchVars,
                   imerge_started, askVars>>

\* variant: the timeout is not caught and leaves CommandRunner.run
HandleTimeoutRaising ==
    /\ run_pc = "except"
    /\ run_pc' = "raised"
    /\ UNCHANGED <<runner_kind, timeout, duration, cmd_exit, elapsed, process,
                   returncode, run_success, timed_out>>
    /\ UNCHANGED <<engineVars, wfVars, rollbacks, after_first, switchVars,
                   imerge_started, askVars>>

\* "except subprocess.TimeoutExpired": kill the process, return Result(-1, ..)
HandleTimeout ==
    /\ run_pc = "except"
    /\ process' = "killed"
    /\ returncode' = -1
    /\ run_pc' = "result"
    /\ UNCHANGED <<runner_kind, timeout, duration, cmd_exit, elapsed,
                   run_success, timed_out>>
    /\ UNCHANGED <<engineVars, wfVars, rollbacks, after_first, switchVars,
                   imerge_started, askVars>>

\* CheckRunner.run: build the CheckResult from the Result
CheckRunnerReturn ==
    /\ run_pc = "result"
    /\ runner_kind = "check"
    /\ run_success' = ResultSuccess(returncode)
    /\ run_pc' = "returned"
    /\ UNCHANGED <<runner_kind, timeout, duration, cmd_exit, elapsed, process,
                   returncode, timed_out>>
    /\ UNCHANGED <<engineVars, wfVars, rollbacks, after_first, switchVars,
                   imerge_started, askVars>>

\* BuildRunner.run_build_test: build the BuildResult from the Result
BuildRunnerReturn ==
    /\ run_pc = "result"
    /\ runner_kind = "build"
    /\ run_success' = ResultSuccess(returncode)
    /\ run_pc' = "returned"
    /\ UNCHANGED <<runner_kind, timeout, duration, cmd_exit, elapsed, process,
                   returncode, timed_out>>
    /\ UNCHANGED <<engineVars, wfVars, rollbacks, after_first, switchVars,
                   imerge_started, askVars>>

RunnerNext ==
    \/ Popen
    \/ CheckTimeout
    \/ SelectOutput
    \/ Poll
    \/ HandleTimeout
    \/ CheckRunnerReturn
    \/ BuildRunnerReturn

RunnerSpec == RunnerInit /\ [][RunnerNext]_vars

\* C20: a command found running past its timeout is killed and the runner
\* returns a result with returncode -1 and success false; the timeout never
\* leaves the runner as an exception, and a command that needs more than one
\* polling interval beyond its timeout is always found.
C20_TimeoutIsFailure ==
    /\ timed_out => run_pc \in {"except", "result", "returned"}
    /\ (timed_out /\ run_pc \in {"result", "returned"}) =>
          (process = "killed" /\ returncode = -1)
    /\ (timed_out /\ run_pc = "returned") => ~run_success
    /\ (run_pc = "returned" /\ duration > timeout + 1) => timed_out

C20_Witness ==
    /\ run_pc = "returned"
    /\ timed_out
    /\ cmd_exit = 0
    /\ duration > timeout + 1
    /\ returncode = -1
    /\ ~run_success

\* ---- further engine properties -------------------------------------------
\* C11: no step of the run lowers the frontier (applied_up_to_index).
C11_FrontierMonotone ==
    [][strategy_data'.applied_up_to_index >= strategy_data.applied_up_to_index]_vars

C11_Witness ==
    /\ pc = "exit"
    /\ applyFails # {} /\ testFails # {}
    /\ frontier >= 2
    /\ Cardinality(known_bad_ids) >= 2
    /\ validated # {}

\* C12: every candidate handed to the target is a run of consecutive units of
\* the original patchset, in the original order, whose indices all lie in
\* [frontier, total) for the frontier as it stands when the candidate is
\* picked.
C12_CandidateRange ==
    pc = "try" =>
        /\ frontier <= next_set.start
        /\ next_set.start <= next_set.end
        /\ next_set.end <= total
        /\ \A k \in 1..Len(CandidateIds(next_set)) :
              IndexOfFrom(CandidateIds(next_set)[k], 0, total)
                  = next_set.start + k - 1

C12_Witness ==
    /\ pc = "try"
    /\ strategy_data.current_bisect # NoBisect
    /\ frontier >= 1
    /\ known_bad_ids # {}
    /\ next_set.end - next_set.start >= 2

\* C13: an attempt in which a unit fails to apply stops at that unit (no
\* later unit is applied), is rolled back and never runs the tests; the tests
\* start only with every unit of the candidate applied.
C13_NoTestOnApplyFailure ==
    /\ []((pc \in {"rollback", "record"} /\ ~outcome.applied) =>
            /\ ~tested
            /\ pos \in applyFails
            /\ Len(wc.head) <= Len(entry.head) + (pos - next_set.start)
            /\ (pc = "record" => wc = entry))
    /\ [][(tested' /\ ~tested) =>
            /\ pos = next_set.end
            /\ wc.head = entry.head \o CandidateIds(next_set)
            /\ ~wc.am]_vars

C13_Witness ==
    /\ pc = "rollback"
    /\ ~outcome.applied
    /\ ~tested
    /\ pos >= next_set.start + 2
    /\ pos + 1 < next_set.end

\* C15: one attempt at a time.  A candidate is handed to the target only from
\* the top of the loop, with no `git am' session open and with the outcome of
\* the candidate before it as the last record; the working copy changes only
\* inside try_patches, every commit added is a unit of the current candidate,
\* and a record is added only after try_patches has returned.
C15_OneAttemptInFlight ==
    /\ [][(pc' = "try" /\ pc # "try") =>
            /\ pc = "loop"
            /\ ~wc.am
            /\ IF next_set = NoSet
               THEN nattempts = 0
               ELSE /\ Len(results) >= 1
                    /\ results[Len(results)].patch_ids
                         = CandidateIds(next_set)
                    /\ results[Len(results)].success = outcome.success]_vars
    /\ [][wc' # wc =>
            /\ pc \in {"apply", "rollback"}
            /\ next_set' = next_set
            /\ results' = results
            /\ Len(wc'.head) > Len(wc.head) =>
                  wc'.head[Len(wc'.head)] \in SeqToSet(CandidateIds(next_set))]_vars
    /\ [][results' # results =>
            /\ pc = "record"
            /\ wc' = wc
            /\ next_set' = next_set]_vars

C15_Witness ==
    /\ pc = "try"
    /\ nattempts >= 3
    /\ ~results[Len(results)].success
    /\ validated # {}

\* the end of a run that made one attempt, of all units, which passed
OneAttemptEnd ==
    /\ pc = "exit"
    /\ done
    /\ nattempts = 1
    /\ Len(results) = 1
    /\ results[1].patch_ids = SliceIds(0, total)
    /\ results[1].success /\ results[1].applied
    /\ frontier = total
    /\ known_bad_ids = {}
    /\ wc = CleanAt(SliceIds(0, total))

\* C16: when every unit applies and the whole set passes the tests, the run
\* makes exactly one attempt, of all units, which applies and passes; it ends
\* with the frontier at the number of units and done set.
C16_ScenarioA ==
    (applyFails = {} /\ testFails = {} /\ total >= 1) =>
        /\ [](nattempts <= 1)
        /\ [](pc = "try" => next_set = [start |-> 0, end |-> total])
        /\ <>OneAttemptEnd

C16_Witness ==
    /\ OneAttemptEnd
    /\ total >= 3
    /\ applyFails = {} /\ testFails = {}

\* C17: with no unit at all the run ends at once with done set, no attempt
\* recorded and no candidate ever handed to the target.
C17_ScenarioD ==
    /\ (total = 0 /\ pc = "exit") => done
    /\ total = 0 =>
          /\ nattempts = 0 /\ results = <<>>
          /\ pc \in {"start", "exit"}
          /\ next_set = NoSet
          /\ wc = CleanAt(<<>>)

\* C19 as stated: strategy_data (frontier, known-bad ids, bisect range) and
\* done change only in the driver's own steps, never inside the strategy's
\* next_attempt.
C19_DriverOnlyWrites ==
    [][(strategy_data' # strategy_data \/ done' # done) => pc # "loop"]_vars

\* C19 amended: the driver writes the attempt history and nothing else of the
\* state; strategy_data and done are written inside next_attempt, and only
\* there.
C19_StateWritersAmended ==
    /\ [][(strategy_data' # strategy_data \/ done' # done) => pc = "loop"]_vars
    /\ [][(results' # results \/ nattempts' # nattempts) => pc = "record"]_vars
    /\ [][pc = "record" =>
            (strategy_data' = strategy_data /\ done' = done)]_vars

C19_Witness ==
    /\ pc = "report"
    /\ done
    /\ known_bad_ids # {}
    /\ frontier >= 1
    /\ nattempts >= 2

\* ---- further workflow properties -----------------------------------------
\* C21: a run that stops on an unknown strategy name stops before git-imerge
\* has started a merge in the target working copy.
C21_UnknownStrategyFirst == abort = "unknown_strategy" => ~imerge_started

\* ---- a strategy asked by itself ------------------------------------------
MaxBatchSize == 8
MaxCount == 9

\* one of the three strategies has been constructed
StrategyInit ==
    /\ total = 0 /\ applyFails = {} /\ testFails = {} /\ pc = "start"
    /\ results = <<>> /\ nattempts = 0 /\ strategy_data = EmptyStrategyData
    /\ done = FALSE /\ next_set = NoSet /\ wc = CleanAt(<<>>) /\ saved = <<>>
    /\ entry = CleanAt(<<>>) /\ pos = 0 /\ outcome = NoOutcome
    /\ tested = FALSE /\ validated = {}
    /\ routing = "node" /\ wnode = "Initialize" /\ max_retries = 0
    /\ strategy_name \in {"optimistic", "batch", "per_conflict"}
    /\ batch_size \in IF strategy_name = "batch" THEN 1..MaxBatchSize ELSE {1}
    /\ conflicts_left = 0 /\ conflicts_remaining = TRUE /\ retry_count = 0
    /\ recovery_attempts = 0 /\ status = "pending" /\ end_data = "none"
    /\ caller = "idle" /\ abort = "none" /\ failures = 0
    /\ total_failures = 0
    /\ rollbacks = 0 /\ after_first = CleanAt(<<>>)
    /\ resolutions = 0 /\ conflicts_in_batch = 0
    /\ recovery_decision = "none" /\ new_strategy = "per_conflict"
    /\ new_batch_size = NoBatchSize /\ switched = FALSE
    /\ RunnerIdle
    /\ imerge_started = FALSE
    /\ AskIdle

\* strategy.should_check_now(conflicts_resolved_this_batch): a return
\* statement and nothing else
ShouldCheckNowCall ==
    /\ \E c \in 0..MaxCount :
        /\ asked_count' = c
        /\ answer' = ShouldCheckNow(strategy_name, batch_size, c)
    /\ asked' = TRUE
    /\ UNCHANGED <<engineVars, wfVars, rollbacks, after_first, switchVars,
                   runVars, imerge_started>>

StrategyNext == ShouldCheckNowCall

StrategySpec == StrategyInit /\ [][StrategyNext]_vars

\* C22: the optimistic strategy always answers false, the fixed-batch
\* strategy of size N answers true exactly when c >= N, the per-unit strategy
\* answers true exactly when c >= 1, and asking changes nothing of the
\* strategy or of the workflow.
C22_DecisionTable ==
    /\ [](asked =>
            /\ strategy_name = "optimistic" => answer = FALSE
            /\ strategy_name = "batch" => (answer <=> asked_count >= batch_size)
            /\ strategy_name = "per_conflict" => (answer <=> asked_count >= 1))
    /\ [][UNCHANGED <<strategy_name, batch_size, wfVars, switchVars>>]_vars

\* a fixed-batch strategy is asked with exactly its batch size and says yes
C22_Witness ==
    /\ asked
    /\ strategy_name = "batch"
    /\ batch_size > 1
    /\ asked_count = batch_size
    /\ answer = TRUE

\* ---- the bisection steps -------------------------------------------------
\* the last recorded attempt, and the range [start, end) of its candidate
LastResult == results[Len(results)]
LastStart == IndexOfFrom(LastResult.patch_ids[1], 0, total)
LastEnd == LastStart + Len(LastResult.patch_ids)

\* the last attempt applied every unit of its candidate and failed validation
LastFailedValidation ==
    /\ Len(results) > 0
    /\ ~LastResult.success
    /\ LastResult.failed_patch_id = NoId

C24_BisectSecondHalf ==
    [][(/\ pc = "loop" /\ ~done /\ Len(results) > 0
        /\ LastResult.success
        /\ strategy_data.current_bisect # NoBisect
        /\ LastStart = strategy_data.current_bisect.start
        /\ LastEnd = strategy_data.current_bisect.mid)
        => LET b == strategy_data.current_bisect
           IN  IF b.end - b.mid = 1
               THEN /\ PatchId(b.mid) \in strategy_data'.known_bad_ids
                    /\ next_set' # NoSet =>
                          ~(next_set'.start <= b.mid /\ b.mid < next_set'.end)
               ELSE next_set' = [start |-> b.mid,
                                 end |-> (b.mid + b.end) \div 2]]_vars

\* indices at or after the frontier of units that are not known bad
Eligible == {i \in frontier..(total - 1) : PatchId(i) \notin known_bad_ids}

C26_SingleUnitFailure ==
    [][(pc = "loop" /\ ~done /\ LastFailedValidation
           /\ Len(LastResult.patch_ids) = 1)
        => /\ strategy_data'.known_bad_ids =
                 known_bad_ids \cup {LastResult.patch_ids[1]}
           /\ strategy_data'.applied_up_to_index = LastStart + 1
           /\ strategy_data'.current_bisect = NoBisect
           /\ IF next_set' = NoSet
              THEN done' /\ pc' = "report"
                   /\ \A i \in (LastStart + 1)..(total - 1) :
                          \E j \in i..(total - 1) :
                              PatchId(j) \in strategy_data'.known_bad_ids
              ELSE ~done' /\ pc' = "try"]_vars

\* a unit isolated inside a window has just been marked bad and the next
\* candidate is picked
C26_Witness ==
    /\ pc = "try"
    /\ LastFailedValidation
    /\ Len(LastResult.patch_ids) = 1
    /\ LastResult.patch_ids[1] \in known_bad_ids
    /\ frontier = LastStart + 1
    /\ LastStart >= 1
    /\ strategy_data.current_bisect = NoBisect

\* the last attempt stopped at a unit that did not apply
LastFailedToApply ==
    /\ Len(results) > 0
    /\ ~LastResult.success
    /\ LastResult.failed_patch_id # NoId

ChecksStep == wnode \in {"Check", "Tests"} /\ wnode' # wnode
ChecksFailedStep == ChecksStep /\ total_failures' = total_failures + 1
ChecksPassedStep == ChecksStep /\ total_failures' = total_failures

C30_BatchBoundary ==
    [][wnode = "ResolveConflicts" /\ wnode' # wnode
        => LET n == conflicts_left - conflicts_left'
           IN  /\ n \in 0..conflicts_left
               /\ \A m \in 1..(n - 1) :
                     ~ShouldCheckNow(strategy_name, batch_size, m)
               /\ \/ n >= 1 /\ ShouldCheckNow(strategy_name, batch_size, n)
                  \/ conflicts_left' = 0
               /\ conflicts_remaining' = (conflicts_left' > 0)
               /\ wnode' \in {"Check", "Build"}
               /\ wnode' = "Check" <=> routing = "node"]_vars

\* a fixed-batch strategy of size 2 has ended a batch with a conflict left
C30_Witness ==
    /\ wnode = "Check"
    /\ strategy_name = "batch"
    /\ batch_size = 2
    /\ conflicts_left = 1
    /\ conflicts_remaining

====
